---------------------------- MODULE Spec2Model ----------------------------
(***************************************************************************)
(* The Elastic Tree (ET) message codecs of                                 *)
(* backend/protocol/ElasticTreeMessage.py: the constructors, length(),     *)
(* pack() and unpack() of the ten ET message classes, as a state machine   *)
(* in which a sender constructs a message, measures or packs it, the body  *)
(* travels (possibly cut short, or with its last byte altered) and the     *)
(* codec registered under the type code unpacks it.                        *)
(*                                                                         *)
(* Numbers.  struct's unsigned fields are TLA+ naturals split into bytes   *)
(* with \div and %; a dpid ('Q', 64 bits) is kept as four 16-bit limbs so  *)
(* that the whole unsigned 64-bit range is present.  A Python float is a   *)
(* record [nan, t]: either NaN or the double t / 2^26 (a dyadic double     *)
(* with at most 28 significant bits, on which +, - and the comparisons of  *)
(* the code are exact).  struct's 'f' is IEEE-754 binary32: packing rounds *)
(* to 24 significant bits (ties to even) and lays out sign, biased         *)
(* exponent and fraction; unpacking rebuilds the double from those bits.   *)
(***************************************************************************)
EXTENDS Integers, Sequences, FiniteSets

VARIABLES
    pc,      \* "idle" | "built" | "measured" | "rebuilt" | "packed" | "received" | "decoded"
    args,    \* the arguments of the last constructor call
    msg,     \* what that call produced: a message object or a raised exception
    lenres,  \* what msg.length() returned or raised (None before the call)
    wire,    \* the bytes handed to unpack: pack(msg), possibly altered in transit
    code,    \* the type code the body is dispatched under
    intact,  \* TRUE while wire is exactly what pack(msg) returned
    out      \* what unpack (or a second construction) returned or raised

vars == <<pc, args, msg, lenres, wire, code, intact, out>>

-----------------------------------------------------------------------------
(* Bounds of the model *)

\* longest list of ETLinkUtil items / Nodes a sender puts in one message
MaxItems == 2

-----------------------------------------------------------------------------
(* Python values *)

None == [cls |-> "None"]

\* a raised exception: "Exception" (ETTrafficMatrix.__init__), "struct.error"
\* (struct.unpack on a string of the wrong length), "TypeError"
Raise(kind) == [cls |-> kind]

IsError(x) == x.cls \in {"Exception", "struct.error", "TypeError"}

IsMessage(x) == x.cls \notin {"None", "Exception", "struct.error", "TypeError"}

\* bool(x) of an int
PyBool(x) == x # 0

RECURSIVE Concat(_)
\* ''.join(list of strings)
Concat(ss) == IF ss = <<>> THEN <<>> ELSE Head(ss) \o Concat(Tail(ss))

\* s[:n]
Prefix(s, n) == SubSeq(s, 1, IF n < Len(s) THEN n ELSE Len(s))

\* s[n:]
Suffix(s, n) == SubSeq(s, n + 1, Len(s))

-----------------------------------------------------------------------------
(* struct: big-endian unsigned integers *)

\* struct.pack('> B', v)
PackB(v) == <<v % 256>>

\* struct.pack('> H', v)
PackH(v) == <<(v \div 256) % 256, v % 256>>

\* struct.pack('> I', v)
PackI(v) == <<(v \div 16777216) % 256, (v \div 65536) % 256, (v \div 256) % 256, v % 256>>

\* struct.pack('> Q', v), v given as four 16-bit limbs, most significant first
PackQ(v) == PackH(v[1]) \o PackH(v[2]) \o PackH(v[3]) \o PackH(v[4])

\* struct.unpack('> H', s)[0], Len(s) = 2
UnpackH(s) == s[1] * 256 + s[2]

\* struct.unpack('> I', s)[0], Len(s) = 4
UnpackI(s) == s[1] * 16777216 + s[2] * 65536 + s[3] * 256 + s[4]

\* struct.unpack('> Q', s)[0], Len(s) = 8, as four 16-bit limbs
UnpackQ(s) == <<UnpackH(SubSeq(s, 1, 2)), UnpackH(SubSeq(s, 3, 4)),
                UnpackH(SubSeq(s, 5, 6)), UnpackH(SubSeq(s, 7, 8))>>

-----------------------------------------------------------------------------
(* Python floats and struct's 'f' *)

\* ticks per 1.0: a float [nan |-> FALSE, t |-> n] is the double n / 2^26
Tick == 2^26

NaN == [nan |-> TRUE, t |-> 0]

Num(n) == [nan |-> FALSE, t |-> n]

\* a < b, a > b, a <= b of Python floats: every comparison with NaN is False
FLt(a, b) == ~a.nan /\ ~b.nan /\ a.t < b.t

FGt(a, b) == ~a.nan /\ ~b.nan /\ a.t > b.t

FLe(a, b) == ~a.nan /\ ~b.nan /\ a.t <= b.t

\* a + b and a - b (exact on these doubles); NaN propagates
FAdd(a, b) == IF a.nan \/ b.nan THEN NaN ELSE Num(a.t + b.t)

FSub(a, b) == IF a.nan \/ b.nan THEN NaN ELSE Num(a.t - b.t)

\* the literal 1.0
One == Num(Tick)

\* the literal 0.0
Zero == Num(0)

\* the literal 1.01 is the double 1.01000000000000000888..., that is
\* 67779952.64... ticks: a float on the tick grid exceeds it iff its tick
\* count exceeds 67779952
Floor101 == 67779952

\* x > 1.01
FGt101(x) == ~x.nan /\ x.t > Floor101

Abs(n) == IF n < 0 THEN -n ELSE n

\* number of bits of n >= 0 (n < 2^29)
BitLen(n) == CHOOSE p \in 0..29 : n < 2^p /\ (p = 0 \/ n >= 2^(p - 1))

\* the tick count of the binary32 nearest to n ticks (round to nearest, ties to even)
RoundF32(n) ==
    LET a == Abs(n)
        p == BitLen(a)
    IN  IF p <= 24 THEN n
        ELSE LET s    == p - 24
                 q    == a \div 2^s
                 r    == a % 2^s
                 half == 2^(s - 1)
                 up   == r > half \/ (r = half /\ q % 2 = 1)
                 m    == (IF up THEN q + 1 ELSE q) * 2^s
             IN  IF n < 0 THEN -m ELSE m

\* struct.pack('> f', x): sign bit, biased exponent (8 bits), fraction (23 bits)
PackF(x) ==
    IF x.nan THEN <<127, 192, 0, 0>>
    ELSE IF x.t = 0 THEN <<0, 0, 0, 0>>
    ELSE LET a      == Abs(RoundF32(x.t))
             p      == BitLen(a)
             biased == p + 100          \* (p - 1 - 26) + 127
             m24    == IF p >= 24 THEN a \div 2^(p - 24) ELSE a * 2^(24 - p)
             bits   == biased * 8388608 + (m24 - 8388608)
             sign   == IF x.t < 0 THEN 128 ELSE 0
         IN  <<sign + bits \div 16777216, (bits \div 65536) % 256,
               (bits \div 256) % 256, bits % 256>>

\* struct.unpack('> f', s)[0], Len(s) = 4, for NaN, zero and the binary32
\* values that lie on the tick grid below 16.0 (all that PackF produces)
UnpackF(s) ==
    LET bits   == (s[1] % 128) * 16777216 + s[2] * 65536 + s[3] * 256 + s[4]
        biased == bits \div 8388608
        frac   == bits % 8388608
        m24    == 8388608 + frac
        e      == biased - 124          \* m24 * 2^(biased - 127 - 23) * 2^26
        a      == IF e >= 0 THEN m24 * 2^e ELSE m24 \div 2^(-e)
    IN  IF biased = 255 /\ frac # 0 THEN NaN
        ELSE IF bits = 0 THEN Zero
        ELSE Num(IF s[1] >= 128 THEN -a ELSE a)

-----------------------------------------------------------------------------
(* The base envelope layer (module OFGMessage): the message header, the    *)
(* topology node and link records, the list-of-nodes message.              *)

\* OFGMessage.SIZE: the header every length() starts from
OFGMessage_SIZE == 7

\* OFGMessage.pack(self): the transaction id, which every unpack reads back
\* with struct.unpack('> I', body[:4])
OFGMessage_pack(m) == PackI(m.xid)

\* Node.SIZE
Node_SIZE == 10

\* a Node is an opaque fixed-size record, kept as its Node.SIZE bytes
Node(raw) == [cls |-> "Node", raw |-> raw]

Node_pack(n) == n.raw

\* Node.unpack(buf): needs Node.SIZE bytes
Node_unpack(buf) ==
    IF Len(buf) < Node_SIZE THEN Raise("struct.error")
    ELSE Node(Prefix(buf, Node_SIZE))

\* Link.SIZE: link type, source node and port, destination node and port
Link_SIZE == 2 + Node_SIZE + 2 + Node_SIZE + 2

\* Link.__init__(self, link_type, src_node, src_port, dst_node, dst_port)
Link(link_type, src_node, src_port, dst_node, dst_port) ==
    [cls |-> "Link", link_type |-> link_type, src_node |-> src_node,
     src_port |-> src_port, dst_node |-> dst_node, dst_port |-> dst_port]

\* Link.pack(self): the fields in the order ETLinkUtil.unpack reads them
Link_pack(l) ==
    PackH(l.link_type) \o Node_pack(l.src_node) \o PackH(l.src_port)
        \o Node_pack(l.dst_node) \o PackH(l.dst_port)

\* Link.unpack(buf): reads the first Link.SIZE bytes of buf and returns a
\* plain Link; bytes after them are not looked at
Link_unpack(buf) ==
    IF Len(buf) < Link_SIZE THEN Raise("struct.error")
    ELSE Link(UnpackH(SubSeq(buf, 1, 2)),
              Node_unpack(SubSeq(buf, 3, 2 + Node_SIZE)),
              UnpackH(SubSeq(buf, 3 + Node_SIZE, 4 + Node_SIZE)),
              Node_unpack(SubSeq(buf, 5 + Node_SIZE, 4 + 2 * Node_SIZE)),
              UnpackH(SubSeq(buf, 5 + 2 * Node_SIZE, 6 + 2 * Node_SIZE)))

\* NodesList.__init__(self, nodes, xid), for the subclass clz
NodesList(clz, nodes, xid) == [cls |-> clz, xid |-> xid, nodes |-> nodes]

\* NodesList.length(self)
NodesList_length(m) == [cls |-> "int", v |-> OFGMessage_SIZE + Len(m.nodes) * Node_SIZE]

\* NodesList.pack(self)
NodesList_pack(m) ==
    OFGMessage_pack(m) \o Concat([i \in 1..Len(m.nodes) |-> Node_pack(m.nodes[i])])

\* NodesList.unpack(body) as inherited by the subclass clz: the count of
\* nodes is the length of the body after the xid over Node.SIZE
NodesList_unpack(clz, body) ==
    IF Len(body) < 4 THEN Raise("struct.error")
    ELSE LET xid  == UnpackI(Prefix(body, 4))
             rest == Suffix(body, 4)
             n    == Len(rest) \div Node_SIZE
         IN  NodesList(clz,
                       [i \in 1..n |->
                           Node_unpack(SubSeq(rest, (i - 1) * Node_SIZE + 1, i * Node_SIZE))],
                       xid)

-----------------------------------------------------------------------------
(* ETTrafficMatrix, 0xF0 *)

ETTrafficMatrix_get_type == 240

\* ETTrafficMatrix.__init__ without the clamp: a sum in (1.0, 1.01] is
\* accepted with agg as given
ETTrafficMatrix_NoClamp(use_hw, solver, may_split_flows, k, demand, edge, agg, plen, xid) ==
    LET self == [cls |-> "ETTrafficMatrix", xid |-> xid,
                 use_hw |-> PyBool(use_hw), solver |-> solver,
                 may_split_flows |-> PyBool(may_split_flows), k |-> k,
                 demand |-> demand, edge |-> edge, agg |-> agg, plen |-> plen]
    IN  IF \/ FLt(demand, Zero) \/ FGt(demand, One)
           \/ FLt(edge, Zero)   \/ FGt(edge, One)
           \/ FLt(agg, Zero)    \/ FGt(edge, One)
        THEN Raise("Exception")
        ELSE IF FGt101(FAdd(agg, edge)) THEN Raise("Exception") ELSE self

\* ETTrafficMatrix.__init__: the coercions, the range check, the
\* agg + edge check with its clamp
ETTrafficMatrix(use_hw, solver, may_split_flows, k, demand, edge, agg, plen, xid) ==
    LET self == [cls |-> "ETTrafficMatrix", xid |-> xid,
                 use_hw |-> PyBool(use_hw), solver |-> solver,
                 may_split_flows |-> PyBool(may_split_flows), k |-> k,
                 demand |-> demand, edge |-> edge, agg |-> agg, plen |-> plen]
    IN  IF \/ FLt(demand, Zero) \/ FGt(demand, One)
           \/ FLt(edge, Zero)   \/ FGt(edge, One)
           \/ FLt(agg, Zero)    \/ FGt(edge, One)
        THEN Raise("Exception")
        ELSE IF FGt(FAdd(agg, edge), One)
             THEN IF FGt101(FAdd(agg, edge))
                  THEN Raise("Exception")
                  ELSE [self EXCEPT !.agg = FSub(One, edge)]
             ELSE self

ETTrafficMatrix_length(m) == [cls |-> "int", v |-> OFGMessage_SIZE + 23]

\* struct.pack('> 3B I 3f I', ...) after the header
ETTrafficMatrix_pack(m) ==
    OFGMessage_pack(m)
        \o PackB(IF m.use_hw THEN 1 ELSE 0) \o PackB(m.solver)
        \o PackB(IF m.may_split_flows THEN 1 ELSE 0)
        \o PackI(m.k) \o PackF(m.demand) \o PackF(m.edge) \o PackF(m.agg)
        \o PackI(m.plen)

ETTrafficMatrix_unpack(body) ==
    IF Len(body) < 4 THEN Raise("struct.error")
    ELSE LET xid == UnpackI(Prefix(body, 4))
             b   == Suffix(body, 4)
         IN  IF Len(b) < 23 THEN Raise("struct.error")
             ELSE ETTrafficMatrix(b[1], b[2], b[3], UnpackI(SubSeq(b, 4, 7)),
                                  UnpackF(SubSeq(b, 8, 11)), UnpackF(SubSeq(b, 12, 15)),
                                  UnpackF(SubSeq(b, 16, 19)), UnpackI(SubSeq(b, 20, 23)),
                                  xid)

-----------------------------------------------------------------------------
(* ETLinkUtil and ETLinkUtils, 0xF1 *)

ETLinkUtil_SIZE == Link_SIZE + 4

\* ETLinkUtil.__init__: a Link that also carries util
ETLinkUtil(link_type, src_node, src_port, dst_node, dst_port, util) ==
    [cls |-> "ETLinkUtil", link_type |-> link_type, src_node |-> src_node,
     src_port |-> src_port, dst_node |-> dst_node, dst_port |-> dst_port,
     util |-> util]

ETLinkUtil_pack(u) == Link_pack(u) \o PackF(u.util)

ETLinkUtils_get_type == 241

ETLinkUtils(utils, xid) == [cls |-> "ETLinkUtils", xid |-> xid, utils |-> utils]

\* OFGMessage.SIZE + self.utils * ETLinkUtil.SIZE: self.utils is the list,
\* list * int is a list, and int + list raises TypeError
ETLinkUtils_length(m) == Raise("TypeError")

ETLinkUtils_pack(m) ==
    OFGMessage_pack(m) \o Concat([i \in 1..Len(m.utils) |-> ETLinkUtil_pack(m.utils[i])])

\* num_utils is the floor of the division; each item goes through Link.unpack
ETLinkUtils_unpack(body) ==
    IF Len(body) < 4 THEN Raise("struct.error")
    ELSE LET xid       == UnpackI(Prefix(body, 4))
             rest      == Suffix(body, 4)
             num_utils == Len(rest) \div ETLinkUtil_SIZE
         IN  ETLinkUtils([i \in 1..num_utils |->
                             Link_unpack(SubSeq(rest, (i - 1) * ETLinkUtil_SIZE + 1,
                                                i * ETLinkUtil_SIZE))],
                         xid)

-----------------------------------------------------------------------------
(* ETPowerUsage, 0xF2 *)

ETPowerUsage_get_type == 242

\* ETPowerUsage.__init__ with "watts_max if watts_max else watts_traditional":
\* an explicit 0 is taken for a missing value
ETPowerUsage_Truthy(watts_current, watts_traditional, has_max, watts_max, xid) ==
    [cls |-> "ETPowerUsage", xid |-> xid, watts_current |-> watts_current,
     watts_traditional |-> watts_traditional,
     watts_max |-> IF has_max /\ watts_max # 0 THEN watts_max ELSE watts_traditional]

\* has_max is "watts_max is not None"
ETPowerUsage(watts_current, watts_traditional, has_max, watts_max, xid) ==
    [cls |-> "ETPowerUsage", xid |-> xid, watts_current |-> watts_current,
     watts_traditional |-> watts_traditional,
     watts_max |-> IF has_max THEN watts_max ELSE watts_traditional]

ETPowerUsage_length(m) == [cls |-> "int", v |-> OFGMessage_SIZE + 12]

ETPowerUsage_pack(m) ==
    OFGMessage_pack(m) \o PackI(m.watts_current) \o PackI(m.watts_traditional)
        \o PackI(m.watts_max)

ETPowerUsage_unpack(body) ==
    IF Len(body) < 4 THEN Raise("struct.error")
    ELSE LET xid == UnpackI(Prefix(body, 4))
             b   == Suffix(body, 4)
         IN  IF Len(b) < 12 THEN Raise("struct.error")
             ELSE ETPowerUsage(UnpackI(SubSeq(b, 1, 4)), UnpackI(SubSeq(b, 5, 8)),
                               TRUE, UnpackI(SubSeq(b, 9, 12)), xid)

-----------------------------------------------------------------------------
(* ETSwitchesOff, 0xF3: a NodesList *)

ETSwitchesOff_get_type == 243

ETSwitchesOff(nodes, xid) == NodesList("ETSwitchesOff", nodes, xid)

-----------------------------------------------------------------------------
(* ETBandwidth, 0xF4 *)

ETBandwidth_get_type == 244

ETBandwidth(bandwidth_achieved_mbps, xid) ==
    [cls |-> "ETBandwidth", xid |-> xid,
     bandwidth_achieved_mbps |-> bandwidth_achieved_mbps]

ETBandwidth_length(m) == [cls |-> "int", v |-> OFGMessage_SIZE + 4]

ETBandwidth_pack(m) == OFGMessage_pack(m) \o PackI(m.bandwidth_achieved_mbps)

\* returns ETPowerUsage(bandwidth_achieved_mbps, xid): the two values land
\* in watts_current and watts_traditional, watts_max and xid take their defaults
ETBandwidth_unpack(body) ==
    IF Len(body) < 4 THEN Raise("struct.error")
    ELSE LET xid == UnpackI(Prefix(body, 4))
             b   == Suffix(body, 4)
         IN  IF Len(b) < 4 THEN Raise("struct.error")
             ELSE ETPowerUsage(UnpackI(Prefix(b, 4)), xid, FALSE, 0, 0)

-----------------------------------------------------------------------------
(* ETLatency, 0xF5 *)

ETLatency_get_type == 245

ETLatency(latency_ms_edge, latency_ms_agg, latency_ms_core, xid) ==
    [cls |-> "ETLatency", xid |-> xid, latency_ms_edge |-> latency_ms_edge,
     latency_ms_agg |-> latency_ms_agg, latency_ms_core |-> latency_ms_core]

ETLatency_length(m) == [cls |-> "int", v |-> OFGMessage_SIZE + 12]

ETLatency_pack(m) ==
    OFGMessage_pack(m) \o PackI(m.latency_ms_edge) \o PackI(m.latency_ms_agg)
        \o PackI(m.latency_ms_core)

\* ETLatency.unpack that takes a missing latency_ms_core for 0
ETLatency_unpack_Partial(body) ==
    IF Len(body) < 4 THEN Raise("struct.error")
    ELSE LET xid == UnpackI(Prefix(body, 4))
             b   == Suffix(body, 4)
         IN  IF Len(b) < 8 THEN Raise("struct.error")
             ELSE ETLatency(UnpackI(SubSeq(b, 1, 4)), UnpackI(SubSeq(b, 5, 8)),
                            IF Len(b) < 12 THEN 0 ELSE UnpackI(SubSeq(b, 9, 12)), xid)

ETLatency_unpack(body) ==
    IF Len(body) < 4 THEN Raise("struct.error")
    ELSE LET xid == UnpackI(Prefix(body, 4))
             b   == Suffix(body, 4)
         IN  IF Len(b) < 12 THEN Raise("struct.error")
             ELSE ETLatency(UnpackI(SubSeq(b, 1, 4)), UnpackI(SubSeq(b, 5, 8)),
                            UnpackI(SubSeq(b, 9, 12)), xid)

-----------------------------------------------------------------------------
(* ETSwitchesRequest, 0xF6 *)

ETSwitchesRequest_get_type == 246

ETSwitchesRequest(k, xid) == [cls |-> "ETSwitchesRequest", xid |-> xid, k |-> k]

ETSwitchesRequest_length(m) == [cls |-> "int", v |-> OFGMessage_SIZE + 4]

ETSwitchesRequest_pack(m) == OFGMessage_pack(m) \o PackI(m.k)

ETSwitchesRequest_unpack(body) ==
    IF Len(body) < 4 THEN Raise("struct.error")
    ELSE LET xid == UnpackI(Prefix(body, 4))
             b   == Suffix(body, 4)
         IN  IF Len(b) < 4 THEN Raise("struct.error")
             ELSE ETSwitchesRequest(UnpackI(Prefix(b, 4)), xid)

-----------------------------------------------------------------------------
(* ETSwitchFailureChange, 0xF7 *)

ETSwitchFailureChange_get_type == 247

ETSwitchFailureChange(dpid, failed, xid) ==
    [cls |-> "ETSwitchFailureChange", xid |-> xid, dpid |-> dpid, failed |-> failed]

ETSwitchFailureChange_length(m) == [cls |-> "int", v |-> OFGMessage_SIZE + 8 + 1]

ETSwitchFailureChange_pack(m) ==
    OFGMessage_pack(m) \o PackQ(m.dpid) \o PackB(IF m.failed THEN 1 ELSE 0)

\* True if failed==1 else False
ETSwitchFailureChange_unpack(body) ==
    IF Len(body) < 4 THEN Raise("struct.error")
    ELSE LET xid == UnpackI(Prefix(body, 4))
             b   == Suffix(body, 4)
         IN  IF Len(b) < 9 THEN Raise("struct.error")
             ELSE ETSwitchFailureChange(UnpackQ(Prefix(b, 8)), b[9] = 1, xid)

-----------------------------------------------------------------------------
(* ETLinkFailureChange, 0xF8 *)

ETLinkFailureChange_get_type == 248

ETLinkFailureChange(link, failed, xid) ==
    [cls |-> "ETLinkFailureChange", xid |-> xid, link |-> link, failed |-> failed]

ETLinkFailureChange_length(m) == [cls |-> "int", v |-> OFGMessage_SIZE + Link_SIZE + 1]

ETLinkFailureChange_pack(m) ==
    OFGMessage_pack(m) \o Link_pack(m.link) \o PackB(IF m.failed THEN 1 ELSE 0)

\* True if failed==1 else False
ETLinkFailureChange_unpack(body) ==
    IF Len(body) < 4 THEN Raise("struct.error")
    ELSE LET xid == UnpackI(Prefix(body, 4))
             b   == Suffix(body, 4)
             link == Link_unpack(Prefix(b, Link_SIZE))
             rest == Suffix(b, Link_SIZE)
         IN  IF IsError(link) THEN link
             ELSE IF Len(rest) < 1 THEN Raise("struct.error")
             ELSE ETLinkFailureChange(link, rest[1] = 1, xid)

-----------------------------------------------------------------------------
(* ETComputationDone, 0xFF *)

ETComputationDone_get_type == 255

ETComputationDone(num_unplaced_flows, xid) ==
    [cls |-> "ETComputationDone", xid |-> xid, num_unplaced_flows |-> num_unplaced_flows]

ETComputationDone_length(m) == [cls |-> "int", v |-> OFGMessage_SIZE + 4]

ETComputationDone_pack(m) == OFGMessage_pack(m) \o PackI(m.num_unplaced_flows)

\* returns ETPowerUsage(num_unplaced_flows, xid)
ETComputationDone_unpack(body) ==
    IF Len(body) < 4 THEN Raise("struct.error")
    ELSE LET xid == UnpackI(Prefix(body, 4))
             b   == Suffix(body, 4)
         IN  IF Len(b) < 4 THEN Raise("struct.error")
             ELSE ETPowerUsage(UnpackI(Prefix(b, 4)), xid, FALSE, 0, 0)

-----------------------------------------------------------------------------
(* Dispatch: a message's own methods, and ET_PROTOCOL's codec per type code *)

\* msg.get_type()
get_type(m) ==
    CASE m.cls = "ETTrafficMatrix"       -> ETTrafficMatrix_get_type
      [] m.cls = "ETLinkUtils"           -> ETLinkUtils_get_type
      [] m.cls = "ETPowerUsage"          -> ETPowerUsage_get_type
      [] m.cls = "ETSwitchesOff"         -> ETSwitchesOff_get_type
      [] m.cls = "ETBandwidth"           -> ETBandwidth_get_type
      [] m.cls = "ETLatency"             -> ETLatency_get_type
      [] m.cls = "ETSwitchesRequest"     -> ETSwitchesRequest_get_type
      [] m.cls = "ETSwitchFailureChange" -> ETSwitchFailureChange_get_type
      [] m.cls = "ETLinkFailureChange"   -> ETLinkFailureChange_get_type
      [] m.cls = "ETComputationDone"     -> ETComputationDone_get_type

\* msg.length()
length(m) ==
    CASE m.cls = "ETTrafficMatrix"       -> ETTrafficMatrix_length(m)
      [] m.cls = "ETLinkUtils"           -> ETLinkUtils_length(m)
      [] m.cls = "ETPowerUsage"          -> ETPowerUsage_length(m)
      [] m.cls = "ETSwitchesOff"         -> NodesList_length(m)
      [] m.cls = "ETBandwidth"           -> ETBandwidth_length(m)
      [] m.cls = "ETLatency"             -> ETLatency_length(m)
      [] m.cls = "ETSwitchesRequest"     -> ETSwitchesRequest_length(m)
      [] m.cls = "ETSwitchFailureChange" -> ETSwitchFailureChange_length(m)
      [] m.cls = "ETLinkFailureChange"   -> ETLinkFailureChange_length(m)
      [] m.cls = "ETComputationDone"     -> ETComputationDone_length(m)

\* msg.pack()
pack(m) ==
    CASE m.cls = "ETTrafficMatrix"       -> ETTrafficMatrix_pack(m)
      [] m.cls = "ETLinkUtils"           -> ETLinkUtils_pack(m)
      [] m.cls = "ETPowerUsage"          -> ETPowerUsage_pack(m)
      [] m.cls = "ETSwitchesOff"         -> NodesList_pack(m)
      [] m.cls = "ETBandwidth"           -> ETBandwidth_pack(m)
      [] m.cls = "ETLatency"             -> ETLatency_pack(m)
      [] m.cls = "ETSwitchesRequest"     -> ETSwitchesRequest_pack(m)
      [] m.cls = "ETSwitchFailureChange" -> ETSwitchFailureChange_pack(m)
      [] m.cls = "ETLinkFailureChange"   -> ETLinkFailureChange_pack(m)
      [] m.cls = "ETComputationDone"     -> ETComputationDone_pack(m)

\* ET_PROTOCOL: the unpack of the class registered under type code c
ET_PROTOCOL_unpack(c, body) ==
    CASE c = ETTrafficMatrix_get_type       -> ETTrafficMatrix_unpack(body)
      [] c = ETLinkUtils_get_type           -> ETLinkUtils_unpack(body)
      [] c = ETPowerUsage_get_type          -> ETPowerUsage_unpack(body)
      [] c = ETSwitchesOff_get_type         -> NodesList_unpack("ETSwitchesOff", body)
      [] c = ETBandwidth_get_type           -> ETBandwidth_unpack(body)
      [] c = ETLatency_get_type             -> ETLatency_unpack(body)
      [] c = ETSwitchesRequest_get_type     -> ETSwitchesRequest_unpack(body)
      [] c = ETSwitchFailureChange_get_type -> ETSwitchFailureChange_unpack(body)
      [] c = ETLinkFailureChange_get_type   -> ETLinkFailureChange_unpack(body)
      [] c = ETComputationDone_get_type     -> ETComputationDone_unpack(body)

-----------------------------------------------------------------------------
(* The values the callers pass *)

\* transaction ids: the default 0 and 0x01020304
Xids == {0, 16909060}

\* floats for edge and agg: NaN, -0.25, 0.0, 0.25, 0.5, 0.5 + 2^-26 (not a
\* binary32), 0.5 + ~0.005, the last tick with 0.5 + x <= 1.01, the first
\* with 0.5 + x > 1.01, 0.5 + ~0.02, 0.75, 1.0, ~1.005, the ticks on either
\* side of 1.01, 2.0
FloatVals ==
    {NaN} \cup
    { Num(n) : n \in { -(Tick \div 4), 0, Tick \div 4, Tick \div 2, Tick \div 2 + 1,
                       Tick \div 2 + 335544, Tick \div 2 + 671088,
                       Tick \div 2 + 671089, Tick \div 2 + 1342178,
                       (Tick \div 4) * 3, Tick, Tick + 335544, Floor101,
                       Floor101 + 1, 2 * Tick } }

\* floats for demand
DemandVals ==
    {NaN} \cup { Num(n) : n \in { -(Tick \div 4), 0, Tick \div 2 + 1, Tick, Tick + 335544 } }

\* (use_hw, solver, may_split_flows, k, plen)
MatrixVals == { <<0, 1, 0, 4, 0>>, <<1, 5, 1, 6, 300>> }

NodeA == Node(<<0, 1, 0, 0, 0, 0, 0, 0, 0, 1>>)

NodeB == Node(<<0, 2, 255, 255, 255, 255, 255, 255, 255, 255>>)

LinkVals == { Link(1, NodeA, 1, NodeB, 2), Link(2, NodeB, 513, NodeA, 3) }

LinkUtilVals ==
    { ETLinkUtil(l.link_type, l.src_node, l.src_port, l.dst_node, l.dst_port, u) :
        l \in LinkVals, u \in {Num(Tick \div 2), Num(3 * Tick)} }

\* the lists of at most MaxItems elements of S
ListsOf(S) == UNION { [1..n -> S] : n \in 0..MaxItems }

WattVals == {0, 500}

DpidVals == { <<0, 0, 0, 0>>, <<1, 2, 3, 4>>, <<65535, 65535, 65535, 65535>> }

\* bytes a peer may put where the 'failed' byte goes
FailedBytes == {0, 1, 2, 255}

-----------------------------------------------------------------------------
(* The state machine *)

Init ==
    /\ pc = "idle"
    /\ args = None
    /\ msg = None
    /\ lenres = None
    /\ wire = <<>>
    /\ code = 0
    /\ intact = FALSE
    /\ out = None

\* a constructor call with arguments a returned or raised m
Built(a, m) ==
    /\ pc' = "built"
    /\ args' = a
    /\ msg' = m
    /\ UNCHANGED <<lenres, wire, code, intact, out>>

NewTrafficMatrix ==
    /\ pc = "idle"
    /\ \E v \in MatrixVals, demand \in DemandVals, edge \in FloatVals, agg \in FloatVals,
          xid \in Xids :
        Built([cls |-> "ETTrafficMatrix", use_hw |-> v[1], solver |-> v[2],
               may_split_flows |-> v[3], k |-> v[4], demand |-> demand,
               edge |-> edge, agg |-> agg, plen |-> v[5], xid |-> xid],
              ETTrafficMatrix(v[1], v[2], v[3], v[4], demand, edge, agg, v[5], xid))

NewLinkUtils ==
    /\ pc = "idle"
    /\ \E utils \in ListsOf(LinkUtilVals), xid \in Xids :
        Built([cls |-> "ETLinkUtils", utils |-> utils, xid |-> xid],
              ETLinkUtils(utils, xid))

NewPowerUsage ==
    /\ pc = "idle"
    /\ \E wc \in WattVals, wt \in {0, 700}, has_max \in BOOLEAN, wm \in {0, 900},
          xid \in Xids :
        /\ ~has_max => wm = 0
        /\ Built([cls |-> "ETPowerUsage", watts_current |-> wc,
                  watts_traditional |-> wt, has_max |-> has_max, watts_max |-> wm,
                  xid |-> xid],
                 ETPowerUsage(wc, wt, has_max, wm, xid))

NewSwitchesOff ==
    /\ pc = "idle"
    /\ \E nodes \in ListsOf({NodeA, NodeB}), xid \in Xids :
        Built([cls |-> "ETSwitchesOff", nodes |-> nodes, xid |-> xid],
              ETSwitchesOff(nodes, xid))

NewBandwidth ==
    /\ pc = "idle"
    /\ \E bw \in {0, 1000}, xid \in Xids :
        Built([cls |-> "ETBandwidth", bandwidth_achieved_mbps |-> bw, xid |-> xid],
              ETBandwidth(bw, xid))

NewLatency ==
    /\ pc = "idle"
    /\ \E e \in {0, 1}, a \in {2, 70000}, c \in {3}, xid \in Xids :
        Built([cls |-> "ETLatency", latency_ms_edge |-> e, latency_ms_agg |-> a,
               latency_ms_core |-> c, xid |-> xid],
              ETLatency(e, a, c, xid))

NewSwitchesRequest ==
    /\ pc = "idle"
    /\ \E k \in {4, 6}, xid \in Xids :
        Built([cls |-> "ETSwitchesRequest", k |-> k, xid |-> xid],
              ETSwitchesRequest(k, xid))

NewSwitchFailureChange ==
    /\ pc = "idle"
    /\ \E dpid \in DpidVals, failed \in BOOLEAN, xid \in Xids :
        Built([cls |-> "ETSwitchFailureChange", dpid |-> dpid, failed |-> failed,
               xid |-> xid],
              ETSwitchFailureChange(dpid, failed, xid))

NewLinkFailureChange ==
    /\ pc = "idle"
    /\ \E link \in LinkVals, failed \in BOOLEAN, xid \in Xids :
        Built([cls |-> "ETLinkFailureChange", link |-> link, failed |-> failed,
               xid |-> xid],
              ETLinkFailureChange(link, failed, xid))

NewComputationDone ==
    /\ pc = "idle"
    /\ \E n \in {0, 3}, xid \in Xids :
        Built([cls |-> "ETComputationDone", num_unplaced_flows |-> n, xid |-> xid],
              ETComputationDone(n, xid))

\* msg.length()
Length ==
    /\ pc = "built"
    /\ IsMessage(msg)
    /\ pc' = "measured"
    /\ lenres' = length(msg)
    /\ UNCHANGED <<args, msg, wire, code, intact, out>>

\* a second ETTrafficMatrix constructed from the fields of the first
Rebuild ==
    /\ pc = "built"
    /\ msg.cls = "ETTrafficMatrix"
    /\ pc' = "rebuilt"
    /\ out' = ETTrafficMatrix(IF msg.use_hw THEN 1 ELSE 0, msg.solver,
                              IF msg.may_split_flows THEN 1 ELSE 0, msg.k,
                              msg.demand, msg.edge, msg.agg, msg.plen, msg.xid)
    /\ UNCHANGED <<args, msg, lenres, wire, code, intact>>

\* msg.pack(), framed under msg.get_type()
Pack ==
    /\ pc = "built"
    /\ IsMessage(msg)
    /\ pc' = "packed"
    /\ wire' = pack(msg)
    /\ code' = get_type(msg)
    /\ intact' = TRUE
    /\ UNCHANGED <<args, msg, lenres, out>>

\* the receiver is handed only the first n bytes of the body
Truncate ==
    /\ pc = "packed"
    /\ \E n \in 0..(Len(wire) - 1) : wire' = Prefix(wire, n)
    /\ pc' = "received"
    /\ intact' = FALSE
    /\ UNCHANGED <<args, msg, lenres, code, out>>

\* the peer wrote byte b where a failure-change body holds 'failed'
SetFailedByte ==
    /\ pc = "packed"
    /\ code \in {ETSwitchFailureChange_get_type, ETLinkFailureChange_get_type}
    /\ \E b \in FailedBytes :
        /\ wire' = [wire EXCEPT ![Len(wire)] = b]
        /\ intact' = (wire[Len(wire)] = b)
    /\ pc' = "received"
    /\ UNCHANGED <<args, msg, lenres, code, out>>

\* ET_PROTOCOL dispatches the body to the codec of its type code
Unpack ==
    /\ pc \in {"packed", "received"}
    /\ pc' = "decoded"
    /\ out' = ET_PROTOCOL_unpack(code, wire)
    /\ UNCHANGED <<args, msg, lenres, wire, code, intact>>

Next ==
    \/ NewBandwidth
    \/ NewTrafficMatrix
    \/ NewLinkUtils
    \/ NewPowerUsage
    \/ NewSwitchesOff
    \/ NewLatency
    \/ NewSwitchesRequest
    \/ NewSwitchFailureChange
    \/ NewLinkFailureChange
    \/ NewComputationDone
    \/ Length
    \/ Rebuild
    \/ Pack
    \/ Truncate
    \/ SetFailedByte
    \/ Unpack

Spec == Init /\ [][Next]_vars

-----------------------------------------------------------------------------
(* The claims *)

\* 0.0 <= x <= 1.0
InUnit(x) == FLe(Zero, x) /\ FLe(x, One)

\* x < 0.0 or x > 1.0
Outside(x) == FLt(x, Zero) \/ FGt(x, One)

\* x is a number that struct's 'f' carries unchanged
IsF32(x) == ~x.nan /\ RoundF32(x.t) = x.t

\* a message whose every float field is a binary32 number
Carried(m) ==
    /\ m.cls = "ETTrafficMatrix" => IsF32(m.demand) /\ IsF32(m.edge) /\ IsF32(m.agg)
    /\ m.cls = "ETLinkUtils" => \A i \in 1..Len(m.utils) : IsF32(m.utils[i].util)

\* C1: round trip: unpacking the body that pack(m) produced returns a
\* message equal to m (same class, same xid, same value in every field),
\* for every variant and every m whose floats the wire format carries.
C1_RoundTrip ==
    (pc = "decoded" /\ intact /\ Carried(msg)) => (out.cls = msg.cls /\ out = msg)

\* C2: constructing an ETTrafficMatrix with demand, edge or agg below 0.0
\* or above 1.0 always raises and yields no message.
C2_DomainValidation ==
    (/\ args.cls = "ETTrafficMatrix"
     /\ Outside(args.demand) \/ Outside(args.edge) \/ Outside(args.agg))
        => msg.cls = "Exception"

\* the message ETTrafficMatrix.__init__ leaves when it changes nothing
C3_Kept ==
    [cls |-> "ETTrafficMatrix", xid |-> args.xid, use_hw |-> args.use_hw # 0,
     solver |-> args.solver, may_split_flows |-> args.may_split_flows # 0,
     k |-> args.k, demand |-> args.demand, edge |-> args.edge, agg |-> args.agg,
     plen |-> args.plen]

\* C3: for demand, edge and agg each in [0.0, 1.0], construction succeeds
\* with every field as given when agg + edge <= 1.0, succeeds with agg
\* replaced by 1.0 - edge (all else as given) when 1.0 < agg + edge <= 1.01,
\* and raises when agg + edge > 1.01.
C3_ToleranceRule ==
    (/\ args.cls = "ETTrafficMatrix"
     /\ InUnit(args.demand) /\ InUnit(args.edge) /\ InUnit(args.agg))
        => LET sum == FAdd(args.agg, args.edge)
           IN  IF FLe(sum, One) THEN msg = C3_Kept
               ELSE IF ~FGt101(sum)
                    THEN msg = [C3_Kept EXCEPT !.agg = FSub(One, args.edge)]
                    ELSE msg.cls = "Exception"

\* a sum in (1.0, 1.01] was clamped: agg is now 1.0 - edge, not what was passed
C3_Witness ==
    /\ args.cls = "ETTrafficMatrix"
    /\ InUnit(args.demand) /\ InUnit(args.edge) /\ InUnit(args.agg)
    /\ msg.cls = "ETTrafficMatrix"
    /\ msg.agg # args.agg
    /\ msg.agg = FSub(One, args.edge)

\* C4: ETLinkUtils.unpack raises a decode error whenever the length after
\* the xid is not a multiple of ETLinkUtil.SIZE, and otherwise returns that
\* many items (none for a length of 0).
C4_LengthCheck ==
    (pc = "decoded" /\ code = ETLinkUtils_get_type /\ Len(wire) >= 4)
        => IF (Len(wire) - 4) % ETLinkUtil_SIZE # 0
           THEN out.cls = "struct.error"
           ELSE /\ out.cls = "ETLinkUtils"
                /\ Len(out.utils) = (Len(wire) - 4) \div ETLinkUtil_SIZE

\* C5: a failure-change body with 'failed' byte b decodes, for every b, to
\* failed = TRUE when b is non-zero and failed = FALSE when b is 0.
C5_BooleanDecode ==
    (/\ pc = "decoded"
     /\ code \in {ETSwitchFailureChange_get_type, ETLinkFailureChange_get_type}
     /\ Len(wire) = Len(pack(msg)))
        => /\ IsMessage(out)
           /\ out.failed = (wire[Len(wire)] # 0)

\* C6: length() returns a number, and that number less OFGMessage.SIZE is
\* the count of bytes pack() appends after the base header.
C6_LengthInvariant ==
    pc = "measured"
        => /\ lenres.cls = "int"
           /\ lenres.v - OFGMessage_SIZE = Len(pack(msg)) - Len(OFGMessage_pack(msg))

\* C7: an ETPowerUsage built without watts_max has watts_max =
\* watts_traditional, built with one (0 included) keeps it; after pack and
\* unpack watts_max is still that value and watts_current and xid are kept.
C7_PowerUsageDefault ==
    args.cls = "ETPowerUsage"
        => LET expected == IF args.has_max THEN args.watts_max
                           ELSE args.watts_traditional
           IN  /\ msg.watts_max = expected
               /\ (pc = "decoded" /\ intact)
                    => /\ out.cls = "ETPowerUsage"
                       /\ out.watts_max = expected
                       /\ out.watts_traditional = args.watts_traditional
                       /\ out.watts_current = args.watts_current
                       /\ out.xid = args.xid

\* a message built without watts_max came back from the wire with
\* watts_max = watts_traditional = 700
C7_Witness ==
    /\ pc = "decoded" /\ intact
    /\ args.cls = "ETPowerUsage" /\ ~args.has_max /\ args.watts_traditional = 700
    /\ out.cls = "ETPowerUsage" /\ out.watts_max = 700

\* C8: the codec registered under type code c decodes a well-formed body to
\* a message whose get_type() is c and whose xid is the body's first four
\* bytes; every item of a decoded ETLinkUtils is an ETLinkUtil (it has util).
C8_DecodeVariant ==
    (pc = "decoded" /\ intact)
        => /\ IsMessage(out)
           /\ get_type(out) = code
           /\ out.xid = UnpackI(Prefix(wire, 4))
           /\ code = ETLinkUtils_get_type
                => \A i \in 1..Len(out.utils) : out.utils[i].cls = "ETLinkUtil"

\* the bytes the codec of type code c needs: the xid and the fixed-width fields
C9_Required(c) ==
    4 + CASE c = ETTrafficMatrix_get_type       -> 23
          [] c = ETPowerUsage_get_type          -> 12
          [] c = ETBandwidth_get_type           -> 4
          [] c = ETLatency_get_type             -> 12
          [] c = ETSwitchesRequest_get_type     -> 4
          [] c = ETSwitchFailureChange_get_type -> 8 + 1
          [] c = ETLinkFailureChange_get_type   -> Link_SIZE + 1
          [] c = ETComputationDone_get_type     -> 4
          [] OTHER                              -> 0

\* C9: unpack on fewer bytes than the xid plus the variant's fixed-width
\* fields raises a decode error; it never returns a message built from
\* part of the fields.
C9_Truncated ==
    (pc = "decoded" /\ Len(wire) < C9_Required(code)) => out.cls = "struct.error"

\* an ETLatency body cut after latency_ms_agg was refused
C9_Witness ==
    /\ pc = "decoded"
    /\ code = ETLatency_get_type
    /\ Len(wire) = 12
    /\ out.cls = "struct.error"

\* 0.0 <= demand, edge, agg <= 1.0 and agg + edge <= 1.0
C10_InDomain(m) ==
    /\ InUnit(m.demand) /\ InUnit(m.edge) /\ InUnit(m.agg)
    /\ FLe(FAdd(m.agg, m.edge), One)

\* C10: every ETTrafficMatrix that __init__ returned, built directly or by
\* unpack, has demand, edge and agg in [0.0, 1.0] and agg + edge <= 1.0;
\* building a second one from its fields succeeds and changes no field.
C10_MatrixInvariant ==
    /\ msg.cls = "ETTrafficMatrix" => C10_InDomain(msg)
    /\ out.cls = "ETTrafficMatrix" => C10_InDomain(out)
    /\ pc = "rebuilt" => out = msg

=============================================================================
